---- MODULE Spec2Model ----
(***************************************************************************)
(* Model of utils/utils.py (EarthMapper): the two random patch extractors, *)
(* masked band resampling, class weights and the per-class train/test      *)
(* split.  Every function is a stateless call: a behaviour is one call,    *)
(* from the state holding its arguments (pc = "call") to the state holding *)
(* what it returned (pc = "return") or the fact that it raised             *)
(* (pc = "raise").                                                         *)
(***************************************************************************)
EXTENDS Integers, Sequences, FiniteSets, TLC

VARIABLES fn,    \* the function called
          args,  \* its arguments
          pc,    \* "call", "return" or "raise"
          idx,   \* patch extractors: the local idx after the sample was drawn
          ret    \* the value returned

vars == <<fn, args, pc, idx, ret>>

\* Python's None: the value of ret and idx while nothing is returned or
\* drawn, and of an optional argument that is left out.  An optional number
\* that is given is Some(x).
None == <<>>
Some(x) == <<x>>

Min(a, b) == IF a < b THEN a ELSE b
Max(a, b) == IF a > b THEN a ELSE b

(***************************************************************************)
(* numpy helpers                                                           *)
(***************************************************************************)

\* The indices lo:hi selects on an axis of length n (negative bounds count
\* from the end, everything is clipped to the axis).
SliceBound(x, n) == IF x < 0 THEN Max(x + n, 0) ELSE Min(x, n)

Slice(lo, hi, n) == SliceBound(lo, n) .. (SliceBound(hi, n) - 1)

\* Python's range(lo, hi).
Range(lo, hi) == lo .. (hi - 1)

\* np.argwhere(valid > 0): the cells of `valid`, a set of (row, column)
\* pairs of a rows x cols array, listed in row-major order.
ArgWhere(valid, rows, cols) ==
    LET scan == [n \in 1 .. rows * cols |-> <<(n - 1) \div cols, (n - 1) % cols>>]
        Set(cell) == cell \in valid
    IN  SelectSeq(scan, Set)

(***************************************************************************)
(* Bounds of the patch extractor inputs                                    *)
(***************************************************************************)
MaxRows == 3
MaxCols == 3
Bands == 2
MaxPatch == 3
MaxNumPatches == 2
MaxHoles == 1

\* A cube whose cells all differ, so that a crop identifies its anchor.
CubeOf(rows, cols) ==
    [r \in 0 .. rows - 1 |-> [c \in 0 .. cols - 1 |->
        [k \in 0 .. Bands - 1 |-> 100 * r + 10 * c + k]]]

(***************************************************************************)
(* patch_extractor_with_mask and patch_extractor                           *)
(***************************************************************************)

\* np.all(mask[i:i+ps, j:j+ps])
AllMask(mask, rows, cols, i, j, ps) ==
    \A a \in Slice(i, i + ps, rows) : \A b \in Slice(j, j + ps, cols) : mask[a][b]

\* Mutant: only the anchor cell itself is tested.
ValidWithMaskAnchorOnly(mask, rows, cols, ps) ==
    { <<i, j>> \in Range(0, rows - ps) \X Range(0, cols - ps) : mask[i][j] }

\* The cells of `valid` that the scan loop sets (valid > 0).
ValidWithMask(mask, rows, cols, ps) ==
    { <<i, j>> \in Range(0, rows - ps) \X Range(0, cols - ps) :
        AllMask(mask, rows, cols, i, j, ps) }

\* Mutant: the last anchor whose patch still fits is included.
ValidInclusive(rows, cols, ps) ==
    IF ps <= rows /\ ps <= cols
    THEN (0 .. rows - ps) \X (0 .. cols - ps)
    ELSE {}

\* valid[0: sh[0]-patch_size[0], 0: sh[1]-patch_size[1]] = 1
Valid(rows, cols, ps) ==
    Slice(0, rows - ps, rows) \X Slice(0, cols - ps, cols)

\* Mutant: a population that is too small is drawn from with replacement.
SampleRefilled(n, k) ==
    IF k < 0 \/ (n = 0 /\ k > 0) THEN {}
    ELSE IF k > n THEN [1 .. k -> 0 .. n - 1]
    ELSE { s \in [1 .. k -> 0 .. n - 1] : \A a, b \in 1 .. k : a # b => s[a] # s[b] }

\* Mutant: draws with replacement.
SampleWithReplacement(n, k) ==
    IF k < 0 \/ k > n THEN {} ELSE [1 .. k -> 0 .. n - 1]

\* random.sample(range(n), k): the sequences it can return; none when it
\* raises ValueError (k negative or larger than the population).
Sample(n, k) ==
    IF k < 0 \/ k > n THEN {}
    ELSE { s \in [1 .. k -> 0 .. n - 1] : \A a, b \in 1 .. k : a # b => s[a] # s[b] }

\* idx[np.array(s)]: np.array([]) is a float array and cannot index.
CanIndex(s) == Len(s) > 0

\* Mutant: the crop is taken one row below the anchor.
CropShifted(data, rows, cols, r, c, ps) ==
    LET rs == Slice(r + 1, r + 1 + ps, rows)
        cs == Slice(c, c + ps, cols)
    IN  [h    |-> Cardinality(rs),
         w    |-> Cardinality(cs),
         cell |-> [a \in 0 .. Cardinality(rs) - 1 |->
                     [b \in 0 .. Cardinality(cs) - 1 |->
                        data[SliceBound(r + 1, rows) + a][SliceBound(c, cols) + b]]]]

\* data[r:r+ps, c:c+ps]: the shape (h, w) of the slice and its cells.
Crop(data, rows, cols, r, c, ps) ==
    LET rs == Slice(r, r + ps, rows)
        cs == Slice(c, c + ps, cols)
    IN  [h    |-> Cardinality(rs),
         w    |-> Cardinality(cs),
         cell |-> [a \in 0 .. Cardinality(rs) - 1 |->
                     [b \in 0 .. Cardinality(cs) - 1 |->
                        data[SliceBound(r, rows) + a][SliceBound(c, cols) + b]]]]

\* patch_arr[i] = crop: numpy broadcasts the crop to (ps, ps, bands), which
\* needs every axis of the crop to be ps or 1.
Broadcasts(crop, ps) == crop.h \in {ps, 1} /\ crop.w \in {ps, 1}

Broadcast(crop, ps) ==
    [a \in 0 .. ps - 1 |-> [b \in 0 .. ps - 1 |->
        crop.cell[IF crop.h = 1 THEN 0 ELSE a][IF crop.w = 1 THEN 0 ELSE b]]]

\* Lines 136-143 and 171-177, shared by the two extractors: draw the
\* anchors among `valid`, crop, return.
ExtractFrom(valid) ==
    LET all == ArgWhere(valid, args.rows, args.cols)
        num == args.num_patches
        ps  == args.patch_size
    IN  \/ /\ Sample(Len(all), num) = {}
           /\ pc' = "raise" /\ idx' = None /\ ret' = None
        \/ \E s \in Sample(Len(all), num) :
             IF ~CanIndex(s)
             THEN pc' = "raise" /\ idx' = None /\ ret' = None
             ELSE LET drawn == [i \in 1 .. num |-> all[s[i] + 1]]
                      crops == [i \in 1 .. num |->
                                  Crop(args.data, args.rows, args.cols,
                                       drawn[i][1], drawn[i][2], ps)]
                  IN  /\ idx' = drawn
                      /\ IF \A i \in 1 .. num : Broadcasts(crops[i], ps)
                         THEN /\ pc' = "return"
                              /\ ret' = [i \in 1 .. num |-> Broadcast(crops[i], ps)]
                         ELSE /\ pc' = "raise"
                              /\ ret' = None

patch_extractor_with_mask ==
    /\ pc = "call" /\ fn = "patch_extractor_with_mask"
    /\ ExtractFrom(ValidWithMask(args.mask, args.rows, args.cols, args.patch_size))
    /\ UNCHANGED <<fn, args>>

patch_extractor ==
    /\ pc = "call" /\ fn = "patch_extractor"
    /\ ExtractFrom(Valid(args.rows, args.cols, args.patch_size))
    /\ UNCHANGED <<fn, args>>

\* The sets of at most MaxHoles cells of a rows x cols array.
Holes(rows, cols) ==
    { G \in SUBSET ((0 .. rows - 1) \X (0 .. cols - 1)) : Cardinality(G) <= MaxHoles }

\* The mask that is `inside` on the cells of H and its negation elsewhere.
MaskOf(rows, cols, H, inside) ==
    [r \in 0 .. rows - 1 |-> [c \in 0 .. cols - 1 |-> (<<r, c>> \in H) = inside]]

\* The arguments of a call: cubes up to MaxRows x MaxCols x Bands, masks that
\* differ from a uniform mask in at most MaxHoles cells.
InitPatch ==
    /\ pc = "call" /\ idx = None /\ ret = None
    /\ \E rows \in 1 .. MaxRows, cols \in 1 .. MaxCols,
          num \in 0 .. MaxNumPatches, ps \in 1 .. MaxPatch :
         \/ /\ fn = "patch_extractor_with_mask"
            /\ \E H \in Holes(rows, cols), inside \in BOOLEAN :
                 args = [data |-> CubeOf(rows, cols), rows |-> rows, cols |-> cols,
                         mask |-> MaskOf(rows, cols, H, inside),
                         num_patches |-> num, patch_size |-> ps]
         \/ /\ fn = "patch_extractor"
            /\ args = [data |-> CubeOf(rows, cols), rows |-> rows, cols |-> cols,
                       num_patches |-> num, patch_size |-> ps]

NextPatch == patch_extractor_with_mask \/ patch_extractor

SpecPatch == InitPatch /\ [][NextPatch]_vars

(***************************************************************************)
(* Properties of the patch extractors (checked under SpecPatch)            *)
(***************************************************************************)
IsPatchCall == fn \in {"patch_extractor_with_mask", "patch_extractor"}

\* The number of valid anchors of the call.
NumValid ==
    IF fn = "patch_extractor_with_mask"
    THEN Cardinality(ValidWithMask(args.mask, args.rows, args.cols, args.patch_size))
    ELSE Cardinality(Valid(args.rows, args.cols, args.patch_size))

\* The anchor set [0, rows - patch_size) x [0, cols - patch_size).
HalfOpenAnchors ==
    { <<r, c>> \in (0 .. args.rows - 1) \X (0 .. args.cols - 1) :
        r < args.rows - args.patch_size /\ c < args.cols - args.patch_size }

\* C1: every anchor patch_extractor_with_mask samples has a footprint of
\* patch_size x patch_size cells that lies in the mask and is true on all of it.
C1_FootprintInsideMask ==
    (fn = "patch_extractor_with_mask" /\ idx # None) =>
        \A i \in 1 .. Len(idx) :
            \A a, b \in 0 .. args.patch_size - 1 :
                /\ idx[i][1] + a < args.rows
                /\ idx[i][2] + b < args.cols
                /\ args.mask[idx[i][1] + a][idx[i][2] + b]

\* A masked call returned patches of more than one cell from a mask that has
\* a false cell.
C1_Witness ==
    /\ fn = "patch_extractor_with_mask" /\ pc = "return"
    /\ args.patch_size >= 2
    /\ \E r \in 0 .. args.rows - 1 : \E c \in 0 .. args.cols - 1 : ~args.mask[r][c]

\* C2: a call of either extractor that asks for more patches than there are
\* valid anchors (for patch_extractor: cells marked in valid, or anchors of
\* the half-open set) raises and returns nothing; so does a call with a
\* fully false mask and num_patches = 1.
C2_TooManyPatchesRaises ==
    (IsPatchCall /\ pc # "call") =>
        /\ args.num_patches > NumValid => (pc = "raise" /\ ret = None)
        /\ (fn = "patch_extractor" /\ args.num_patches > Cardinality(HalfOpenAnchors))
             => (pc = "raise" /\ ret = None)
        /\ ( /\ fn = "patch_extractor_with_mask"
             /\ args.num_patches = 1
             /\ \A r \in 0 .. args.rows - 1 : \A c \in 0 .. args.cols - 1 :
                    ~args.mask[r][c] )
           => (pc = "raise" /\ ret = None)

\* A call that had valid anchors, but fewer than it asked for, has raised.
C2_Witness ==
    /\ IsPatchCall /\ pc = "raise"
    /\ NumValid >= 1 /\ args.num_patches > NumValid

\* C3: the anchors of a returned patch set are pairwise distinct.
C3_AnchorsDistinct ==
    (IsPatchCall /\ pc = "return") =>
        \A i, j \in 1 .. Len(idx) : i # j => idx[i] # idx[j]

\* A call returned two patches.
C3_Witness == IsPatchCall /\ pc = "return" /\ Len(idx) = 2

\* C4: a returned patch set holds num_patches patches of shape
\* (patch_size, patch_size, bands), the i-th being the crop of the cube at
\* the i-th drawn anchor.
C4_PatchesAreCrops ==
    (IsPatchCall /\ pc = "return") =>
        /\ Len(ret) = args.num_patches
        /\ Len(idx) = args.num_patches
        /\ \A i \in 1 .. Len(ret) :
             /\ DOMAIN ret[i] = 0 .. args.patch_size - 1
             /\ \A a \in 0 .. args.patch_size - 1 :
                  /\ DOMAIN ret[i][a] = 0 .. args.patch_size - 1
                  /\ \A b \in 0 .. args.patch_size - 1 :
                       /\ DOMAIN ret[i][a][b] = 0 .. Bands - 1
                       /\ idx[i][1] + a < args.rows
                       /\ idx[i][2] + b < args.cols
                       /\ \A k \in 0 .. Bands - 1 :
                            ret[i][a][b][k] =
                                args.data[idx[i][1] + a][idx[i][2] + b][k]

\* A call returned two patches whose anchors were drawn against the
\* row-major order.
C4_Witness ==
    /\ IsPatchCall /\ pc = "return" /\ Len(idx) = 2
    /\ idx[1][1] > idx[2][1]

\* C5: in patch_extractor every anchor of the half-open set is a candidate,
\* the candidates are exactly that set whenever the patch fits in the cube,
\* no returned patch has an anchor outside it, and a cube with
\* rows = patch_size or cols = patch_size fails any request for a patch.
C5_HalfOpenAnchorSet ==
    fn = "patch_extractor" =>
        /\ HalfOpenAnchors \subseteq Valid(args.rows, args.cols, args.patch_size)
        /\ (args.patch_size <= args.rows /\ args.patch_size <= args.cols)
             => Valid(args.rows, args.cols, args.patch_size) = HalfOpenAnchors
        /\ pc = "return" => \A i \in 1 .. Len(idx) : idx[i] \in HalfOpenAnchors
        /\ ( /\ pc # "call"
             /\ args.rows = args.patch_size \/ args.cols = args.patch_size
             /\ args.num_patches >= 1 )
           => pc = "raise"

\* patch_extractor returned the patch at the last anchor of the half-open
\* set, for patches of more than one cell.
C5_Witness ==
    /\ fn = "patch_extractor" /\ pc = "return" /\ args.patch_size >= 2
    /\ idx[1] = <<args.rows - args.patch_size - 1, args.cols - args.patch_size - 1>>

\* A cube of exactly one patch: patch_extractor raised.
C5_WitnessExactFit ==
    /\ fn = "patch_extractor" /\ pc = "raise" /\ args.num_patches = 1
    /\ args.rows = args.patch_size /\ args.cols = args.patch_size

(***************************************************************************)
(* band_resample_hsi_cube                                                  *)
(*                                                                         *)
(* A float is NaN or the rational num / Den; an element of an integer      *)
(* array is the integer num.                                               *)
(***************************************************************************)
Den == 2

FNaN == [dtype |-> "float", nan |-> TRUE, num |-> 0]
FNum(n) == [dtype |-> "float", nan |-> FALSE, num |-> n]

\* An element of np.zeros(..., dtype).
Zero(dtype) == [dtype |-> dtype, nan |-> FALSE, num |-> 0]

\* What the conversion of NaN to an integer can store: it is undefined, and
\* the builds of numpy store 0 or the smallest integer.
IntMin == -2147483647 - 1
CastOfNaN == {0, IntMin}

Trunc(n, d) == IF n >= 0 THEN n \div d ELSE -((-n) \div d)

\* Storing the float x into an array of the given dtype.
Cast(x, dtype, garbage) ==
    IF dtype = "float" THEN x
    ELSE [dtype |-> "int", nan |-> FALSE,
          num |-> IF x.nan THEN garbage ELSE Trunc(x.num, Den)]

RECURSIVE SumTo(_, _)
SumTo(f, n) == IF n < 0 THEN 0 ELSE f[n] + SumTo(f, n - 1)

\* One row of resample.matrix.dot(v): NaN as soon as the row holds a NaN.
Dot(row, v) ==
    IF \E k \in DOMAIN row : row[k].nan THEN FNaN
    ELSE FNum(SumTo([k \in DOMAIN row |-> row[k].num * v[k]], Bands - 1))

\* resample.matrix.dot(v) for one pixel's spectral vector v.
MatDot(matrix, v) == [t \in DOMAIN matrix |-> Dot(matrix[t], v)]

\* out[np.isnan(out)] = 0
NanToZero(x) == IF x.nan THEN Zero(x.dtype) ELSE x

\* data.reshape((-1, bands)) and mask.ravel(): pixel p of the flat array.
Flat(a, cols, p) == a[p \div cols][p % cols]

\* Mutant: the mask is ignored.
MaskedOutEverywhere(a, garbage) ==
    [p \in 0 .. a.rows * a.cols - 1 |->
        [t \in DOMAIN a.matrix |->
            Cast(MatDot(a.matrix, Flat(a.data, a.cols, p))[t], a.dtype, garbage)]]

\* Lines 51-53: out = zeros of the cube's dtype; out[mask] = matrix.dot(data[mask].T).T
MaskedOut(a, garbage) ==
    LET n     == a.rows * a.cols
        Set(p) == Flat(a.mask, a.cols, p)
        sel   == SelectSeq([i \in 1 .. n |-> i - 1], Set)
        prod  == [j \in 1 .. Len(sel) |-> MatDot(a.matrix, Flat(a.data, a.cols, sel[j]))]
    IN  [p \in 0 .. n - 1 |->
            IF Set(p)
            THEN LET j == CHOOSE i \in 1 .. Len(sel) : sel[i] = p
                 IN  [t \in DOMAIN a.matrix |-> Cast(prod[j][t], a.dtype, garbage)]
            ELSE [t \in DOMAIN a.matrix |-> Zero(a.dtype)]]

\* Line 49: out = resample.matrix.dot(data.T).T, a float array.
UnmaskedOut(a) ==
    [p \in 0 .. a.rows * a.cols - 1 |-> MatDot(a.matrix, Flat(a.data, a.cols, p))]

\* Lines 55-56: NaN to zero, reshape to (rows, cols, len(bands2)).
Finish(out, a) ==
    [r \in 0 .. a.rows - 1 |-> [c \in 0 .. a.cols - 1 |->
        [t \in DOMAIN a.matrix |-> NanToZero(out[r * a.cols + c][t])]]]

band_resample_hsi_cube ==
    /\ pc = "call" /\ fn = "band_resample_hsi_cube"
    /\ \E garbage \in CastOfNaN :
         ret' = Finish(IF args.mask # None THEN MaskedOut(args, garbage)
                       ELSE UnmaskedOut(args), args)
    /\ pc' = "return"
    /\ UNCHANGED <<fn, args, idx>>

\* A cube of both signs whose cells all differ.
SignedCubeOf(rows, cols) ==
    [r \in 0 .. rows - 1 |-> [c \in 0 .. cols - 1 |->
        [k \in 0 .. Bands - 1 |->
            IF (r + c) % 2 = 0 THEN 100 * r + 10 * c + k
            ELSE -(100 * r + 10 * c + k)]]]

\* Rows of a resampling matrix: a target band that no source band overlaps
\* (BandResampler leaves NaN in its first column), one that copies a source
\* band, and one that weighs every source band by 1 / Den.
NoOverlapRow == [k \in 0 .. Bands - 1 |-> IF k = 0 THEN FNaN ELSE FNum(0)]
CopyRow(j) == [k \in 0 .. Bands - 1 |-> IF k = j THEN FNum(Den) ELSE FNum(0)]
EvenRow == [k \in 0 .. Bands - 1 |-> FNum(1)]
MatrixRows == {NoOverlapRow, EvenRow} \cup { CopyRow(j) : j \in 0 .. Bands - 1 }

\* The arguments of a call: a cube and an optional mask as for the patch
\* extractors, a matrix of two target bands, the dtype of the cube.
InitResample ==
    /\ pc = "call" /\ idx = None /\ ret = None
    /\ fn = "band_resample_hsi_cube"
    /\ \E rows \in 1 .. MaxRows, cols \in 1 .. MaxCols,
          row1 \in MatrixRows, row2 \in MatrixRows, dtype \in {"float", "int"} :
         \E mask \in {None} \cup { MaskOf(rows, cols, H, inside) :
                                     H \in Holes(rows, cols), inside \in BOOLEAN } :
            args = [data |-> SignedCubeOf(rows, cols), rows |-> rows, cols |-> cols,
                    matrix |-> <<row1, row2>>, mask |-> mask, dtype |-> dtype]

NextResample == band_resample_hsi_cube

SpecResample == InitResample /\ [][NextResample]_vars

(***************************************************************************)
(* Properties of band_resample_hsi_cube (checked under SpecResample)       *)
(***************************************************************************)
IsMaskedResample ==
    fn = "band_resample_hsi_cube" /\ pc = "return" /\ args.mask # None

\* The element x holds exactly the value of the float y.
HoldsValue(x, y) ==
    /\ ~y.nan /\ ~x.nan
    /\ IF x.dtype = "float" THEN x.num = y.num ELSE x.num * Den = y.num

\* The element x holds the float y as the function stores it in a cube of
\* x's dtype: a float cube holds y, with 0 for NaN; an integer cube holds y
\* truncated toward zero, and one of the conversion's results for NaN.
HoldsStored(x, y) ==
    IF x.dtype = "float"
    THEN ~x.nan /\ x.num = (IF y.nan THEN 0 ELSE y.num)
    ELSE IF y.nan THEN x.num \in CastOfNaN ELSE x.num = Trunc(y.num, Den)

\* C6 as stated: the result of a masked call is zero in every target band
\* where the mask is false and holds the matrix applied to the pixel's
\* spectral vector where the mask is true.
C6_AsStated ==
    IsMaskedResample =>
        \A r \in 0 .. args.rows - 1 : \A c \in 0 .. args.cols - 1 :
            \A t \in DOMAIN args.matrix :
                IF args.mask[r][c]
                THEN HoldsValue(ret[r][c][t], Dot(args.matrix[t], args.data[r][c]))
                ELSE ~ret[r][c][t].nan /\ ret[r][c][t].num = 0

\* C6, amended: the result of a masked call has the cube's shape and dtype,
\* is zero in every target band where the mask is false and, where the mask
\* is true, holds the matrix applied to the pixel's spectral vector as
\* stored in the cube's dtype (NaN replaced by 0 in a float cube).
C6_MaskedResample ==
    IsMaskedResample =>
        /\ DOMAIN ret = 0 .. args.rows - 1
        /\ \A r \in 0 .. args.rows - 1 :
             /\ DOMAIN ret[r] = 0 .. args.cols - 1
             /\ \A c \in 0 .. args.cols - 1 :
                  /\ DOMAIN ret[r][c] = DOMAIN args.matrix
                  /\ \A t \in DOMAIN args.matrix :
                       /\ ret[r][c][t].dtype = args.dtype
                       /\ IF args.mask[r][c]
                          THEN HoldsStored(ret[r][c][t],
                                           Dot(args.matrix[t], args.data[r][c]))
                          ELSE ~ret[r][c][t].nan /\ ret[r][c][t].num = 0

\* A masked call returned for a mask with a true pixel after a false one and
\* a matrix with a band that no source band overlaps.
C6_Witness ==
    /\ IsMaskedResample
    /\ args.matrix[2] = NoOverlapRow /\ args.matrix[1] = EvenRow
    /\ args.cols >= 2 /\ ~args.mask[0][0] /\ args.mask[0][1]

(***************************************************************************)
(* Label vectors                                                           *)
(***************************************************************************)
MaxSamples == 4
MaxLabel == 2

LabelVectors == UNION { [1 .. n -> 0 .. MaxLabel] : n \in 0 .. MaxSamples }

\* np.max(labels), for a vector that is not empty.
MaxOf(labels) ==
    CHOOSE m \in { labels[i] : i \in DOMAIN labels } :
        \A i \in DOMAIN labels : labels[i] <= m

\* count(labels == c)
CountOf(labels, c) == Cardinality({ i \in DOMAIN labels : labels[i] = c })

\* np.bincount(labels, minlength): one count per class 0 .. length - 1,
\* where length is minlength or, if larger, max(labels) + 1.
BinCount(labels, minlength) ==
    LET length == IF Len(labels) = 0 THEN minlength
                  ELSE Max(minlength, MaxOf(labels) + 1)
    IN  [c \in 0 .. length - 1 |-> CountOf(labels, c)]

(***************************************************************************)
(* class_weights                                                           *)
(*                                                                         *)
(* A weight is NaN, an infinity, the 1 of the clamp, or mu * log(n / d).   *)
(***************************************************************************)
MaxMu == 2
MaxClasses == 3

\* Bounds of e to five decimals: ELow / EScale < e < EHigh / EScale.  No
\* (n / d) ^ mu of the model lies between them.
ELow == 271828
EHigh == 271829
EScale == 100000

RECURSIVE Pow(_, _)
Pow(b, k) == IF k = 0 THEN 1 ELSE b * Pow(b, k - 1)

WNaN == [kind |-> "nan", mu |-> 0, n |-> 0, d |-> 1]
WInf(sign) == [kind |-> IF sign > 0 THEN "posinf" ELSE "neginf", mu |-> 0, n |-> 0, d |-> 1]
WOne == [kind |-> "one", mu |-> 0, n |-> 0, d |-> 1]
WMuLog(mu, n, d) == [kind |-> "mulog", mu |-> mu, n |-> n, d |-> d]

\* Line 186: np.sum(counts) / count, as "nan", "inf" or the ratio n / d.
Ratio(total, count) ==
    IF count # 0 THEN [kind |-> "ratio", n |-> total, d |-> count]
    ELSE IF total = 0 THEN [kind |-> "nan", n |-> 0, d |-> 1]
    ELSE [kind |-> "inf", n |-> 0, d |-> 1]

\* Line 187: class_weights[np.isinf(class_weights)] = 0
InfToZero(q) == IF q.kind = "inf" THEN [kind |-> "ratio", n |-> 0, d |-> 1] ELSE q

\* Line 188: mu * np.log(q); log(0) is -inf, and 0 * inf is NaN.
MuLog(mu, q) ==
    IF q.kind = "nan" THEN WNaN
    ELSE IF q.kind = "inf" THEN (IF mu = 0 THEN WNaN ELSE WInf(mu))
    ELSE IF q.n = 0 THEN (IF mu = 0 THEN WNaN ELSE WInf(-mu))
    ELSE WMuLog(mu, q.n, q.d)

\* w < 1 as IEEE floats compare: false for NaN.  mu * log(n / d) < 1 iff
\* (n / d) ^ mu < e, for n >= d > 0.
LessThanOne(w) ==
    CASE w.kind = "nan"    -> FALSE
      [] w.kind = "posinf" -> FALSE
      [] w.kind = "neginf" -> TRUE
      [] w.kind = "one"    -> FALSE
      [] w.kind = "mulog"  ->
            \/ w.mu <= 0
            \/ Pow(w.n, w.mu) * EScale <= ELow * Pow(w.d, w.mu)

\* Mutant: the clamp leaves the weights alone.
ClampSkipped(w) == w

\* Line 189: class_weights[class_weights < 1] = 1
Clamp(w) == IF LessThanOne(w) THEN WOne ELSE w

\* Lines 183-190.  np.max of an empty vector raises.
class_weights ==
    /\ pc = "call" /\ fn = "class_weights"
    /\ IF args.numClasses = None /\ Len(args.labels) = 0
       THEN pc' = "raise" /\ ret' = None
       ELSE LET numClasses == IF args.numClasses = None
                              THEN MaxOf(args.labels) + 1
                              ELSE args.numClasses[1]
                counts == BinCount(args.labels, numClasses)
                total  == Len(args.labels)
            IN  /\ pc' = "return"
                /\ ret' = [c \in DOMAIN counts |->
                             Clamp(MuLog(args.mu, InfToZero(Ratio(total, counts[c]))))]
    /\ UNCHANGED <<fn, args, idx>>

InitWeights ==
    /\ pc = "call" /\ idx = None /\ ret = None
    /\ fn = "class_weights"
    /\ \E labels \in LabelVectors, mu \in -1 .. MaxMu,
          numClasses \in {None} \cup { Some(k) : k \in 1 .. MaxClasses } :
         args = [labels |-> labels, mu |-> mu, numClasses |-> numClasses]

NextWeights == class_weights

SpecWeights == InitWeights /\ [][NextWeights]_vars

(***************************************************************************)
(* Properties of class_weights (checked under SpecWeights)                 *)
(***************************************************************************)
WeightsReturned == fn = "class_weights" /\ pc = "return"

\* The bounds of e decide every comparison of the model: no weight
\* mu * log(n / d) has (n / d) ^ mu between ELow / EScale and EHigh / EScale.
EBoundsDecide ==
    WeightsReturned =>
        \A c \in DOMAIN ret :
            (ret[c].kind = "mulog" /\ ret[c].mu > 0) =>
                \/ Pow(ret[c].n, ret[c].mu) * EScale <= ELow * Pow(ret[c].d, ret[c].mu)
                \/ Pow(ret[c].n, ret[c].mu) * EScale >= EHigh * Pow(ret[c].d, ret[c].mu)

\* w >= 1 as IEEE floats compare: false for NaN.
AtLeastOne(w) ==
    \/ w.kind \in {"one", "posinf"}
    \/ w.kind = "mulog" /\ ~LessThanOne(w)

\* w = 0
IsZero(w) == w.kind = "mulog" /\ (w.mu = 0 \/ w.n = w.d)

\* C7: every weight class_weights returns is >= 1.
C7_WeightsAtLeastOne ==
    WeightsReturned => \A c \in DOMAIN ret : AtLeastOne(ret[c])

\* The example of C7: labels [0,0,0,1], mu = 1, numClasses = 2 give the
\* weights 1 and log(4).
C7_Example ==
    ( /\ WeightsReturned
      /\ args = [labels |-> <<0, 0, 0, 1>>, mu |-> 1, numClasses |-> Some(2)] )
    => ret = (0 :> WOne @@ 1 :> WMuLog(1, 4, 1))

\* C8 as stated: the weight of a class below numClasses that has no sample
\* is 0.
C8_AsStated ==
    WeightsReturned =>
        \A c \in DOMAIN ret :
            CountOf(args.labels, c) = 0 => IsZero(ret[c])

\* C8, amended: the weight of a class that has no sample is 1 when mu > 0,
\* +inf when mu < 0, and NaN when mu = 0 or the label vector is empty.
C8_AbsentClassWeight ==
    WeightsReturned =>
        \A c \in DOMAIN ret :
            CountOf(args.labels, c) = 0 =>
                ret[c] = IF Len(args.labels) = 0 \/ args.mu = 0 THEN WNaN
                         ELSE IF args.mu > 0 THEN WOne
                         ELSE WInf(1)

\* class_weights returned for mu = 1 and labels that leave a class below
\* numClasses without a sample.
C8_Witness ==
    /\ WeightsReturned /\ args.mu = 1 /\ Len(args.labels) > 0
    /\ \E c \in DOMAIN ret : CountOf(args.labels, c) = 0

(***************************************************************************)
(* train_test_split_per_class                                              *)
(*                                                                         *)
(* X is a sequence of rows, a row being the index of its sample; a size is *)
(* None, an integer count [kind |-> "int"] or a float [kind |-> "float"]   *)
(* given in quarters.                                                      *)
(***************************************************************************)
MaxCount == 2

IntSize(k) == [kind |-> "int", v |-> k]
FloatSize(quarters) == [kind |-> "float", v |-> quarters]
Sizes ==
    {None} \cup { IntSize(k) : k \in 0 .. MaxCount }
           \cup { FloatSize(q) : q \in 1 .. 4 }

CeilDiv(a, b) == (a + b - 1) \div b

\* sklearn's check of one size against n_samples: an integer must lie in
\* 1 .. n_samples - 1 and a float strictly between 0 and 1.
SizeInRange(size, n) ==
    \/ size = None
    \/ size.kind = "int" /\ size.v > 0 /\ size.v < n
    \/ size.kind = "float" /\ size.v > 0 /\ size.v < 4

\* sklearn's train_test_split sizes for n samples: test_size defaults to
\* 0.25 when both are None; a float test size is rounded up and a float
\* train size down; a size left out is the complement of the other.  The
\* split is refused (ok = FALSE) when a size is out of range, two floats add
\* up to more than 1, the sizes add up to more than n, or no training
\* sample is left.
SplitSizes(n, train_size, test_size) ==
    LET test  == IF train_size = None /\ test_size = None THEN FloatSize(1)
                 ELSE test_size
        given == IF ~SizeInRange(test, n) \/ ~SizeInRange(train_size, n) THEN FALSE
                 ELSE IF test # None /\ train_size # None
                 THEN ~(test.kind = "float" /\ train_size.kind = "float"
                        /\ test.v + train_size.v > 4)
                 ELSE TRUE
        ntest0  == IF test = None THEN 0
                   ELSE IF test.kind = "float" THEN CeilDiv(test.v * n, 4)
                   ELSE test.v
        ntrain0 == IF train_size = None THEN 0
                   ELSE IF train_size.kind = "float" THEN (train_size.v * n) \div 4
                   ELSE train_size.v
        ntrain  == IF train_size = None THEN n - ntest0 ELSE ntrain0
        ntest   == IF test = None THEN n - ntrain0 ELSE ntest0
    IN  [ok      |-> given /\ ntrain + ntest <= n /\ ntrain > 0,
         n_train |-> ntrain,
         n_test  |-> ntest]

\* The members of a sequence at the positions of p, in p's order.
Take(members, p) == [i \in DOMAIN p |-> members[p[i]]]

\* What train_test_split(members, ...) can return: it shuffles the members,
\* the first n_test of the shuffle are the test set and the next n_train the
\* training set.
ClassSplits(members, sizes) ==
    LET k == sizes.n_test + sizes.n_train
    IN  { [train |-> Take(members, [i \in 1 .. sizes.n_train |-> p[sizes.n_test + i]]),
           test  |-> Take(members, [i \in 1 .. sizes.n_test |-> p[i]])] :
            p \in { q \in [1 .. k -> 1 .. Len(members)] :
                      \A a, b \in 1 .. k : a # b => q[a] # q[b] } }

\* X[y == i]: the rows whose label is i, in order.
RowsOf(y, i) ==
    LET Is(r) == y[r] = i
    IN  SelectSeq([r \in 1 .. Len(y) |-> r], Is)

\* Mutant: only the labels that occur in y are split.
ClassesPresent(y) == { y[i] : i \in DOMAIN y }

\* Line 197 and the loop of line 205: range(len(np.bincount(y))).
Classes(y) == 0 .. Cardinality(DOMAIN BinCount(y, 0)) - 1

\* Mutant: the training rows of a class are appended to both results.
AppendTrainTwice(acc, part, i) ==
    [X_train |-> acc.X_train \o part.train,
     X_test  |-> acc.X_test \o part.train,
     y_train |-> acc.y_train \o [j \in DOMAIN part.train |-> i],
     y_test  |-> acc.y_test \o [j \in DOMAIN part.train |-> i]]

\* Lines 210-213: the four np.append of the loop body, for class i.
AppendClass(acc, part, i) ==
    [X_train |-> acc.X_train \o part.train,
     X_test  |-> acc.X_test \o part.test,
     y_train |-> acc.y_train \o [j \in DOMAIN part.train |-> i],
     y_test  |-> acc.y_test \o [j \in DOMAIN part.test |-> i]]

EmptyResult == [X_train |-> << >>, X_test |-> << >>, y_train |-> << >>, y_test |-> << >>]

\* The loop of lines 205-213 over the classes that are left, in ascending
\* order: the results it can end with, none if train_test_split raises for
\* a class.
RECURSIVE SplitOver(_, _)
SplitOver(classes, acc) ==
    IF classes = {} THEN {acc}
    ELSE LET i       == CHOOSE c \in classes : \A other \in classes : c <= other
             members == RowsOf(args.y, i)
             sizes   == SplitSizes(Len(members), args.train_size, args.test_size)
         IN  IF ~sizes.ok THEN {}
             ELSE UNION { SplitOver(classes \ {i}, AppendClass(acc, part, i)) :
                            part \in ClassSplits(members, sizes) }

train_test_split_per_class ==
    /\ pc = "call" /\ fn = "train_test_split_per_class"
    /\ LET results == SplitOver(Classes(args.y), EmptyResult)
       IN  \/ results = {} /\ pc' = "raise" /\ ret' = None
           \/ \E res \in results : pc' = "return" /\ ret' = res
    /\ UNCHANGED <<fn, args, idx>>

InitSplit ==
    /\ pc = "call" /\ idx = None /\ ret = None
    /\ fn = "train_test_split_per_class"
    /\ \E y \in LabelVectors, train_size \in Sizes, test_size \in Sizes :
         args = [X |-> [r \in 1 .. Len(y) |-> r], y |-> y,
                 train_size |-> train_size, test_size |-> test_size]

NextSplit == train_test_split_per_class

SpecSplit == InitSplit /\ [][NextSplit]_vars

(***************************************************************************)
(* Properties of train_test_split_per_class (checked under SpecSplit)      *)
(***************************************************************************)
SplitReturned == fn = "train_test_split_per_class" /\ pc = "return"

\* The rows that are returned, training rows first.
ReturnedRows == ret.X_train \o ret.X_test
ReturnedLabels == ret.y_train \o ret.y_test

\* C9 as stated: whenever the call returns, every class has as many samples
\* in y_train and y_test together as in y, and X_train and X_test have as
\* many rows as y_train and y_test have labels.
C9_AsStated ==
    SplitReturned =>
        /\ Len(ret.X_train) = Len(ret.y_train)
        /\ Len(ret.X_test) = Len(ret.y_test)
        /\ \A c \in 0 .. MaxLabel :
             CountOf(ret.y_train, c) + CountOf(ret.y_test, c) = CountOf(args.y, c)

\* C9, amended: whenever the call returns, X_train and X_test have as many
\* rows as y_train and y_test have labels, every returned row is a row of X
\* with its own label and is returned once, so no class has more samples in
\* y_train and y_test together than in y; it has as many when train_size or
\* test_size is left out.
C9_SplitConservesClasses ==
    SplitReturned =>
        /\ Len(ret.X_train) = Len(ret.y_train)
        /\ Len(ret.X_test) = Len(ret.y_test)
        /\ \A i \in DOMAIN ReturnedRows :
             /\ ReturnedRows[i] \in DOMAIN args.y
             /\ ReturnedLabels[i] = args.y[ReturnedRows[i]]
             /\ \A j \in DOMAIN ReturnedRows : i # j => ReturnedRows[i] # ReturnedRows[j]
        /\ \A c \in 0 .. MaxLabel :
             /\ CountOf(ret.y_train, c) + CountOf(ret.y_test, c) <= CountOf(args.y, c)
             /\ (args.train_size = None \/ args.test_size = None) =>
                   CountOf(ret.y_train, c) + CountOf(ret.y_test, c) = CountOf(args.y, c)

\* A call with only train_size given, a float, returned the split of two
\* classes.
C9_Witness ==
    /\ SplitReturned
    /\ args.test_size = None /\ args.train_size = FloatSize(2)
    /\ CountOf(args.y, 0) = 2 /\ CountOf(args.y, 1) = 2

\* Some class id below max(y) has no sample in y.
HasGap ==
    /\ Len(args.y) > 0
    /\ \E c \in 0 .. MaxOf(args.y) : CountOf(args.y, c) = 0

\* C10: a call whose labels have a gap below max(y) raises and returns
\* nothing.
C10_GapRaises ==
    (fn = "train_test_split_per_class" /\ pc # "call" /\ HasGap) =>
        (pc = "raise" /\ ret = None)

\* A call with the default sizes raised for labels with a gap, though every
\* class that is present has two samples, enough for its own split.
C10_Witness ==
    /\ fn = "train_test_split_per_class" /\ pc = "raise" /\ HasGap
    /\ args.train_size = None /\ args.test_size = None
    /\ \A c \in 0 .. MaxLabel :
         CountOf(args.y, c) > 0 =>
            /\ CountOf(args.y, c) = 2
            /\ SplitSizes(2, None, None).ok

(***************************************************************************)
(* The module as a whole: one call of any of its functions.  SpecPatch,    *)
(* SpecResample, SpecWeights and SpecSplit are its restrictions to the     *)
(* calls of one component.                                                 *)
(***************************************************************************)
Init == InitPatch \/ InitResample \/ InitWeights \/ InitSplit

Next ==
    \/ patch_extractor_with_mask
    \/ patch_extractor
    \/ band_resample_hsi_cube
    \/ class_weights
    \/ train_test_split_per_class

Spec == Init /\ [][Next]_vars

====
